---- MODULE Spec2Model ----
(***************************************************************************)
(* The two modal components of src/components/modals/message-modal.tsx:    *)
(* MessageModal (a stateless confirmation dialog) and                      *)
(* DynamicAccessKeyFormModal (the create/edit form of a dynamic access     *)
(* key).  The form dialog is a React component: its state lives in         *)
(* useState cells and in the react-hook-form record, its effects run after *)
(* the render in which one of their dependencies changed, in declaration   *)
(* order, and its submit handler is an async function whose continuation   *)
(* runs when the persistence action returns or throws.                     *)
(*                                                                         *)
(* Strings whose characters matter (name, path) are sequences of one-      *)
(* character strings; a calendar day "YYYY-MM-DD" is a day number and a    *)
(* Date is a number of ticks, TicksPerDay ticks to the day.                *)
(***************************************************************************)
EXTENDS Integers, Sequences, FiniteSets, TLC

\* ------------------------------------------------------------------ bounds
MaxPathLen == 2          \* longest path the user types
MaxDay == 2              \* calendar days 1..MaxDay
TicksPerDay == 2         \* instants within one day
MaxInFlight == 2         \* persistence calls that may be awaiting an answer

\* maxLength of the registered inputs
NameMaxLength == 64
PathMaxLength == 120

\* --------------------------------------------------- JavaScript's values
Null == [tag |-> "null"]
Undefined == [tag |-> "undefined"]
Val(v) == [tag |-> "val", v |-> v]

IsNullish(x) == x.tag # "val"
\* truthiness of string | null | undefined, the string a TLA+ string
Truthy(x) == x.tag = "val" /\ x.v # ""
\* the same, the string a sequence of characters
TruthySeq(x) == x.tag = "val" /\ x.v # <<>>

\* ---------------------------------------------------------- enumerations
RandomKeyOnEachConnection == "RandomKeyOnEachConnection"
RandomServerKeyOnEachConnection == "RandomServerKeyOnEachConnection"
UserIpAddress == "UserIpAddress"
LoadBalancerAlgorithm ==
    {RandomKeyOnEachConnection, RandomServerKeyOnEachConnection, UserIpAddress}

\* keys of the prefix dropdown: "" for AccessKeyPrefixType.None, else the type
PrefixKeys == {"", "Type1"}

\* ------------------------------------------------------------------ dates
Days == 1..MaxDay
\* moment(date).format("YYYY-MM-DD"): the calendar day an instant falls on
FormatDay(t) == t \div TicksPerDay
\* moment(str, "YYYY-MM-DD").toDate(): the first instant of that day
ParseDay(d) == d * TicksPerDay

\* ----------------------------------------------------------------- slugify
Replacement == "-"
Whitespace == {" "}
WordChars == {"a", "b", "d", "k", "n", "uuid1", "uuid2"}
Punctuation == {"$", "*", "_", "+", "~", ".", "(", ")", "'", "!", "-", ":", "@"}
AllowedChars == WordChars \cup Whitespace \cup Punctuation
CharMap == ("&" :> <<"a", "n", "d">>)

IsAllowed(c) == c \in AllowedChars

\* what one character of the input appends to the slug
AppendChar(ch) ==
    LET mapped == IF ch \in DOMAIN CharMap THEN CharMap[ch] ELSE <<ch>>
        spaced == IF mapped = <<Replacement>> THEN <<" ">> ELSE mapped
    IN  SelectSeq(spaced, IsAllowed)

RECURSIVE MapChars(_)
MapChars(s) == IF s = <<>> THEN <<>> ELSE AppendChar(Head(s)) \o MapChars(Tail(s))

RECURSIVE TrimLeft(_)
TrimLeft(s) ==
    IF s # <<>> /\ Head(s) \in Whitespace THEN TrimLeft(Tail(s)) ELSE s

RECURSIVE TrimRight(_)
TrimRight(s) ==
    IF s # <<>> /\ s[Len(s)] \in Whitespace
    THEN TrimRight(SubSeq(s, 1, Len(s) - 1)) ELSE s

Trim(s) == TrimRight(TrimLeft(s))

\* s.replace(/\s+/g, replacement)
RECURSIVE ReplaceSpaces(_)
ReplaceSpaces(s) ==
    IF s = <<>> THEN <<>>
    ELSE IF Head(s) \in Whitespace
         THEN <<Replacement>> \o ReplaceSpaces(TrimLeft(s))
         ELSE <<Head(s)>> \o ReplaceSpaces(Tail(s))

Slugify(s) == ReplaceSpaces(Trim(MapChars(s)))

\* uuid v4: one of the identifiers the generator may return
Uuids == {<<"uuid1">>, <<"uuid2">>}

\* ------------------------------------------------------------ stored keys
\* Records the page may hand to the dialog for editing (DynamicAccessKey rows):
\* one expiring in the middle of day 1, one that never expires.
StoredKeys ==
    { [id |-> 1, name |-> <<"k">>, path |-> <<"a", "-", "b">>,
       loadBalancerAlgorithm |-> UserIpAddress,
       expiresAt |-> Val(ParseDay(1) + 1), prefix |-> Val("Type1")],
      [id |-> 2, name |-> <<"k">>, path |-> <<"uuid1">>,
       loadBalancerAlgorithm |-> RandomServerKeyOnEachConnection,
       expiresAt |-> Null, prefix |-> Null] }

\* ------------------------------------------------------------ user inputs
PathChars == {"a", "/", " "}

RECURSIVE SeqsUpTo(_, _)
SeqsUpTo(S, n) ==
    IF n = 0 THEN {<<>>}
    ELSE LET shorter == SeqsUpTo(S, n - 1)
         IN  shorter \cup {Append(s, c) : s \in shorter, c \in S}

LongName == [i \in 1..(NameMaxLength + 1) |-> "k"]
NameInputs == {<<>>, <<"k">>, LongName}
PathInputs == SeqsUpTo(PathChars, MaxPathLen)

\* errors a persistence action may throw, and their toString()
Errors == {[name |-> "Error", message |-> "boom"]}
ErrorToString(e) ==
    IF e.name = "" THEN e.message
    ELSE IF e.message = "" THEN e.name
    ELSE e.name \o ": " \o e.message

\* ------------------------------------------------------------------ state
VARIABLES
    isOpen,                  \* disclosure.isOpen of the form dialog
    dynamicAccessKeyData,    \* the prop: Undefined (create) or Val(record)
    form,                    \* react-hook-form's record of values
    formState,               \* form.formState: isSubmitting, isSubmitSuccessful
    serverError,
    selectedExpirationDate,
    selectedLoadBalancer,
    selectedPrefix,
    pending,                 \* effects whose dependency changed, not yet run
    calls,                   \* persistence calls awaiting their answer
    lastStep,                \* what the last handler did, as seen from outside
    msgIsOpen,               \* disclosure.isOpen of the MessageModal
    msgProps,                \* MessageModal's props
    msgLast                  \* the last thing the MessageModal did

formVars == <<isOpen, dynamicAccessKeyData, form, formState,
              serverError, selectedExpirationDate, selectedLoadBalancer,
              selectedPrefix, pending, calls, lastStep>>
msgVars == <<msgIsOpen, msgProps, msgLast>>
vars == <<formVars, msgVars>>

Idle == [op |-> "idle"]

\* the four useEffect callbacks, in declaration order
ExpirationEffect == "expiresAt"
LoadBalancerEffect == "loadBalancerAlgorithm"
PrefixEffect == "prefix"
IsOpenEffect == "isOpen"
SyncEffects == {ExpirationEffect, LoadBalancerEffect, PrefixEffect}

\* a setState call schedules the effects depending on the cell only when the
\* value changes (Object.is)
Changed(old, new, effect) == IF old = new THEN {} ELSE {effect}

\* React runs the effects of a commit before the next event is handled
Settled == pending = {}

InitForm ==
    /\ isOpen = FALSE
    /\ dynamicAccessKeyData = Undefined
    /\ form = [name |-> Undefined, path |-> Undefined,
               loadBalancerAlgorithm |-> Undefined, expiresAt |-> Undefined,
               prefix |-> Undefined]
    /\ formState = [isSubmitting |-> FALSE, isSubmitSuccessful |-> FALSE]
    /\ serverError = Undefined
    /\ selectedExpirationDate = Undefined
    /\ selectedLoadBalancer = Null
    /\ selectedPrefix = Null
    /\ pending = SyncEffects \cup {IsOpenEffect}
    /\ calls = <<>>
    /\ lastStep = Idle

\* ------------------------------------------------- the page (the parent)
\* disclosure.onOpen, the record to edit (or none) handed over with it
Open(d) ==
    /\ ~isOpen /\ Settled
    /\ isOpen' = TRUE
    /\ dynamicAccessKeyData' = d
    /\ pending' = {IsOpenEffect}
    /\ calls' = [i \in DOMAIN calls |-> [calls[i] EXCEPT !.session = "earlier"]]
    /\ lastStep' = Idle
    /\ UNCHANGED <<msgVars, form, formState, serverError,
                   selectedExpirationDate, selectedLoadBalancer, selectedPrefix>>

\* ------------------------------------------------------------ the effects
\* The three synchronising effects belong to the commit of the handler that
\* changed their dependency: lastStep still names that handler when they ran.
ExpiresAtValue(sel) ==
    IF sel.tag = "val" THEN Val(ParseDay(sel.v)) ELSE Null

RunExpirationEffect ==
    /\ ExpirationEffect \in pending
    /\ form' = [form EXCEPT !.expiresAt = ExpiresAtValue(selectedExpirationDate)]
    /\ pending' = pending \ {ExpirationEffect}
    /\ UNCHANGED <<msgVars, isOpen, dynamicAccessKeyData, formState,
                   serverError, selectedExpirationDate, selectedLoadBalancer,
                   selectedPrefix, calls, lastStep>>

\* the effect with the wrong default in its else branch
LoadBalancerValueWrongDefault(sel) ==
    IF Truthy(sel) THEN sel ELSE Val(UserIpAddress)

LoadBalancerValue(sel) ==
    IF Truthy(sel) THEN sel ELSE Val(RandomKeyOnEachConnection)

RunLoadBalancerEffect ==
    /\ LoadBalancerEffect \in pending
    /\ ExpirationEffect \notin pending
    /\ form' = [form EXCEPT
                  !.loadBalancerAlgorithm = LoadBalancerValue(selectedLoadBalancer)]
    /\ pending' = pending \ {LoadBalancerEffect}
    /\ UNCHANGED <<msgVars, isOpen, dynamicAccessKeyData, formState,
                   serverError, selectedExpirationDate, selectedLoadBalancer,
                   selectedPrefix, calls, lastStep>>

RunPrefixEffect ==
    /\ PrefixEffect \in pending
    /\ pending \cap {ExpirationEffect, LoadBalancerEffect} = {}
    /\ form' = [form EXCEPT !.prefix = selectedPrefix]
    /\ pending' = pending \ {PrefixEffect}
    /\ UNCHANGED <<msgVars, isOpen, dynamicAccessKeyData, formState,
                   serverError, selectedExpirationDate, selectedLoadBalancer,
                   selectedPrefix, calls, lastStep>>

\* the argument of form.reset
ResetValues(d) ==
    IF d.tag = "val"
    THEN [name |-> Val(d.v.name), path |-> Val(d.v.path),
          loadBalancerAlgorithm |-> Val(d.v.loadBalancerAlgorithm),
          expiresAt |-> d.v.expiresAt, prefix |-> d.v.prefix]
    ELSE [name |-> Val(<<>>), path |-> Val(<<>>),
          loadBalancerAlgorithm |-> Val(RandomKeyOnEachConnection),
          expiresAt |-> Null, prefix |-> Null]

OpenExpirationDate(d) ==
    IF d.tag = "val" /\ d.v.expiresAt.tag = "val"
    THEN Val(FormatDay(d.v.expiresAt.v)) ELSE Undefined

OpenLoadBalancer(d) ==
    IF d.tag = "val" THEN Val(d.v.loadBalancerAlgorithm) ELSE Null

OpenPrefix(d) == IF d.tag = "val" THEN d.v.prefix ELSE Null

OpenServerError == Val("")

RunIsOpenEffect ==
    /\ IsOpenEffect \in pending
    /\ pending \cap SyncEffects = {}
    /\ IF isOpen
       THEN /\ serverError' = OpenServerError
            /\ form' = ResetValues(dynamicAccessKeyData)
            /\ formState' = [isSubmitting |-> FALSE, isSubmitSuccessful |-> FALSE]
            /\ selectedExpirationDate' = OpenExpirationDate(dynamicAccessKeyData)
            /\ selectedLoadBalancer' = OpenLoadBalancer(dynamicAccessKeyData)
            /\ selectedPrefix' = OpenPrefix(dynamicAccessKeyData)
            /\ pending' =
                 Changed(selectedExpirationDate, selectedExpirationDate',
                         ExpirationEffect)
                 \cup Changed(selectedLoadBalancer, selectedLoadBalancer',
                              LoadBalancerEffect)
                 \cup Changed(selectedPrefix, selectedPrefix', PrefixEffect)
            /\ lastStep' = [op |-> "opened"]
       ELSE /\ pending' = pending \ {IsOpenEffect}
            /\ lastStep' = Idle
            /\ UNCHANGED <<msgVars, serverError, form, formState, selectedExpirationDate,
                           selectedLoadBalancer, selectedPrefix>>
    /\ UNCHANGED <<msgVars, isOpen, dynamicAccessKeyData, calls>>

\* --------------------------------------------------- the user, the fields
\* the registered inputs: react-hook-form stores what is typed
TypeName(n) ==
    /\ isOpen /\ Settled
    /\ form' = [form EXCEPT !.name = Val(n)]
    /\ lastStep' = Idle
    /\ UNCHANGED <<msgVars, isOpen, dynamicAccessKeyData, formState,
                   serverError, selectedExpirationDate, selectedLoadBalancer,
                   selectedPrefix, pending, calls>>

TypePath(p) ==
    /\ isOpen /\ Settled
    /\ form' = [form EXCEPT !.path = Val(p)]
    /\ lastStep' = Idle
    /\ UNCHANGED <<msgVars, isOpen, dynamicAccessKeyData, formState,
                   serverError, selectedExpirationDate, selectedLoadBalancer,
                   selectedPrefix, pending, calls>>

SetSelectedExpirationDate(value) ==
    /\ selectedExpirationDate' = value
    /\ pending' = Changed(selectedExpirationDate, value, ExpirationEffect)
    /\ lastStep' = Idle
    /\ UNCHANGED <<msgVars, isOpen, dynamicAccessKeyData, form, formState,
                   serverError, selectedLoadBalancer, selectedPrefix, calls>>

\* CustomDatePicker's onChange
PickExpirationDate(day) ==
    /\ isOpen /\ Settled
    /\ SetSelectedExpirationDate(Val(day))

\* the delete button beside the date picker, rendered while a date is selected
ClearExpirationDate ==
    /\ isOpen /\ Settled
    /\ selectedExpirationDate.tag = "val"
    /\ SetSelectedExpirationDate(Undefined)

SetSelectedLoadBalancer(value) ==
    /\ selectedLoadBalancer' = value
    /\ pending' = Changed(selectedLoadBalancer, value, LoadBalancerEffect)
    /\ lastStep' = Idle
    /\ UNCHANGED <<msgVars, isOpen, dynamicAccessKeyData, form, formState,
                   serverError, selectedExpirationDate, selectedPrefix, calls>>

\* defaultSelectedKeys of a menu: the selected key when it is truthy, else none
MenuSelectedKeys(selected) == IF Truthy(selected) THEN {selected.v} ELSE {}

\* v.currentKey of onSelectionChange in a single-selection menu: the item
\* pressed, or undefined when the pressed item was the menu's selected one
CurrentKey(selectedKeys, key) ==
    IF key \in selectedKeys THEN Undefined ELSE Val(key)

SelectLoadBalancer(key) ==
    /\ isOpen /\ Settled
    /\ SetSelectedLoadBalancer(
         CurrentKey(MenuSelectedKeys(selectedLoadBalancer), key))

SetSelectedPrefix(value) ==
    /\ selectedPrefix' = value
    /\ pending' = Changed(selectedPrefix, value, PrefixEffect)
    /\ lastStep' = Idle
    /\ UNCHANGED <<msgVars, isOpen, dynamicAccessKeyData, form, formState,
                   serverError, selectedExpirationDate, selectedLoadBalancer,
                   calls>>

SelectPrefix(key) ==
    /\ isOpen /\ Settled
    /\ SetSelectedPrefix(CurrentKey(MenuSelectedKeys(selectedPrefix), key))

\* disclosure.onClose
OnClose ==
    /\ isOpen' = FALSE
    /\ pending' = Changed(isOpen, FALSE, IsOpenEffect)

\* the Cancel button
PressCancel ==
    /\ isOpen /\ Settled
    /\ OnClose
    /\ lastStep' = Idle
    /\ UNCHANGED <<msgVars, dynamicAccessKeyData, form, formState,
                   serverError, selectedExpirationDate, selectedLoadBalancer,
                   selectedPrefix, calls>>

\* Modal's own close button and the Escape key (isDismissable={false} only
\* disables the press outside): onOpenChange(false)
ModalRequestsClose ==
    /\ isOpen /\ Settled
    /\ OnClose
    /\ lastStep' = Idle
    /\ UNCHANGED <<msgVars, dynamicAccessKeyData, form, formState,
                   serverError, selectedExpirationDate, selectedLoadBalancer,
                   selectedPrefix, calls>>

\* ----------------------------------------------------------------- submit
\* the Save button is disabled while it shows its spinner
IsLoading ==
    /\ ~Truthy(serverError)
    /\ (formState.isSubmitting \/ formState.isSubmitSuccessful)

\* the rules given to form.register
NameValid(name) == TruthySeq(name) /\ Len(name.v) <= NameMaxLength
PathValid(path) == IsNullish(path) \/ Len(path.v) <= PathMaxLength
FormValid(data) == NameValid(data.name) /\ PathValid(data.path)

\* actualSubmit sending the path as typed
PayloadPathUnslugged(data, uuid) ==
    IF ~TruthySeq(data.path) THEN Val(uuid) ELSE data.path

\* actualSubmit without updateData.id = dynamicAccessKeyData.id
PayloadIdMissing(d) == Undefined

\* data.loadBalancerAlgorithm ??= RandomKeyOnEachConnection
PayloadLoadBalancer(data) ==
    IF IsNullish(data.loadBalancerAlgorithm)
    THEN Val(RandomKeyOnEachConnection) ELSE data.loadBalancerAlgorithm

\* if (!data.path) data.path = uuidv4(); else data.path = slugify(data.path)
PayloadPath(data, uuid) ==
    IF ~TruthySeq(data.path) THEN Val(uuid) ELSE Val(Slugify(data.path.v))

\* which persistence action is called, under which id
PersistenceAction(d) ==
    IF d.tag = "val" THEN "updateDynamicAccessKey" ELSE "createDynamicAccessKey"
PayloadId(d) == IF d.tag = "val" THEN Val(d.v.id) ELSE Undefined

Payload(data, d, uuid) ==
    [name |-> data.name,
     path |-> PayloadPath(data, uuid),
     loadBalancerAlgorithm |-> PayloadLoadBalancer(data),
     expiresAt |-> data.expiresAt,
     prefix |-> data.prefix,
     id |-> PayloadId(d)]

\* form.handleSubmit with values that fail validation: actualSubmit is not run
SubmitInvalid ==
    /\ isOpen /\ Settled /\ ~IsLoading
    /\ ~FormValid(form)
    /\ formState' = [isSubmitting |-> FALSE, isSubmitSuccessful |-> FALSE]
    /\ lastStep' = [op |-> "invalid"]
    /\ UNCHANGED <<msgVars, isOpen, dynamicAccessKeyData, form, serverError,
                   selectedExpirationDate, selectedLoadBalancer, selectedPrefix,
                   pending, calls>>

\* actualSubmit up to its await.  `overlap` says whether the user submits
\* while an earlier call still awaits its answer.
Submit(overlap) ==
    /\ isOpen /\ Settled /\ ~IsLoading
    /\ FormValid(form)
    /\ IF overlap THEN Len(calls) < MaxInFlight ELSE calls = <<>>
    /\ \E uuid \in Uuids :
         lastStep' = [op |-> "submit",
                      action |-> PersistenceAction(dynamicAccessKeyData),
                      payload |-> Payload(form, dynamicAccessKeyData, uuid),
                      data |-> form,
                      events |-> <<"setServerError",
                                   PersistenceAction(dynamicAccessKeyData)>>]
    /\ serverError' = Val("")
    /\ formState' = [formState EXCEPT !.isSubmitting = TRUE]
    /\ calls' = Append([i \in DOMAIN calls |-> [calls[i] EXCEPT !.latest = FALSE]],
                       [session |-> "current", latest |-> TRUE])
    /\ UNCHANGED <<msgVars, isOpen, dynamicAccessKeyData, form,
                   selectedExpirationDate, selectedLoadBalancer, selectedPrefix,
                   pending>>

Range(s) == {s[k] : k \in DOMAIN s}
RemoveAt(s, i) == SubSeq(s, 1, i - 1) \o SubSeq(s, i + 1, Len(s))

\* actualSubmit calling onSuccess before disclosure.onClose
SuccessCallbacksSwapped(hasOnSuccess) ==
    (IF hasOnSuccess THEN <<"onSuccess">> ELSE <<>>) \o <<"onClose">>

\* the callbacks actualSubmit invokes once the persistence action returned,
\* the onSuccess prop being given or not
SuccessCallbacks(hasOnSuccess) ==
    <<"onClose">> \o (IF hasOnSuccess THEN <<"onSuccess">> ELSE <<>>)
\* the callbacks of the catch block
FailureCallbacks == <<"setServerError">>

\* actualSubmit after its await, the persistence action having returned
PersistenceReturned(i, hasOnSuccess) ==
    /\ Settled
    /\ i \in DOMAIN calls
    /\ IF "onClose" \in Range(SuccessCallbacks(hasOnSuccess))
       THEN OnClose ELSE UNCHANGED <<isOpen, pending>>
    /\ formState' = [isSubmitting |-> FALSE, isSubmitSuccessful |-> TRUE]
    /\ calls' = RemoveAt(calls, i)
    /\ lastStep' = [op |-> "returned", session |-> calls[i].session,
                    latest |-> calls[i].latest, wasOpen |-> isOpen,
                    events |-> SuccessCallbacks(hasOnSuccess)]
    /\ UNCHANGED <<msgVars, dynamicAccessKeyData, form, serverError,
                   selectedExpirationDate, selectedLoadBalancer, selectedPrefix>>

\* actualSubmit's catch block, the persistence action having thrown `error`
PersistenceThrew(i, error) ==
    /\ Settled
    /\ i \in DOMAIN calls
    /\ IF "setServerError" \in Range(FailureCallbacks)
       THEN serverError' = Val(ErrorToString(error))
       ELSE UNCHANGED serverError
    /\ IF "onClose" \in Range(FailureCallbacks)
       THEN OnClose ELSE UNCHANGED <<isOpen, pending>>
    /\ formState' = [isSubmitting |-> FALSE, isSubmitSuccessful |-> TRUE]
    /\ calls' = RemoveAt(calls, i)
    /\ lastStep' = [op |-> "threw", session |-> calls[i].session,
                    latest |-> calls[i].latest, wasOpen |-> isOpen,
                    error |-> error, events |-> FailureCallbacks]
    /\ UNCHANGED <<msgVars, dynamicAccessKeyData, form,
                   selectedExpirationDate, selectedLoadBalancer, selectedPrefix>>

\* ------------------------------------------------------------ MessageModal
\* title and body: absent, or a text
Titles == {"", "Notice", "Saved", "Failed"}
Bodies == {"", "Done.", "The key was saved.", "The key could not be saved."}

InitMsg ==
    /\ msgIsOpen = FALSE
    /\ msgProps = [title |-> "", body |-> "", isDismissable |-> FALSE]
    /\ msgLast = Idle

\* MessageModal without isKeyboardDismissDisabled
MsgModalKeyboardDismissable ==
    [isOpen |-> msgIsOpen,
     hideCloseButton |-> ~msgProps.isDismissable,
     isDismissable |-> msgProps.isDismissable,
     isKeyboardDismissDisabled |-> FALSE,
     header |-> msgProps.title # "",
     body |-> msgProps.body # ""]

\* what MessageModal hands to Modal
MsgModal ==
    [isOpen |-> msgIsOpen,
     hideCloseButton |-> ~msgProps.isDismissable,
     isDismissable |-> msgProps.isDismissable,
     isKeyboardDismissDisabled |-> ~msgProps.isDismissable,
     header |-> msgProps.title # "",
     body |-> msgProps.body # ""]

\* the page shows a message: the props, then disclosure.onOpen
MsgShow(title, body, dismissable) ==
    /\ ~msgIsOpen
    /\ msgProps' = [title |-> title, body |-> body, isDismissable |-> dismissable]
    /\ msgIsOpen' = TRUE
    /\ msgLast' = [op |-> "show"]
    /\ UNCHANGED formVars

\* the Ok button: disclosure.onClose
MsgPressOk ==
    /\ MsgModal.isOpen
    /\ msgIsOpen' = FALSE
    /\ msgLast' = [op |-> "ok"]
    /\ UNCHANGED <<msgProps, formVars>>

\* the ways Modal itself asks to be closed, each through onOpenChange(false)
MsgCanDismiss(how) ==
    /\ MsgModal.isOpen
    /\ CASE how = "closeButton" -> ~MsgModal.hideCloseButton
         [] how = "outsidePress" -> MsgModal.isDismissable
         [] how = "escapeKey" -> ~MsgModal.isKeyboardDismissDisabled

MsgDismiss(how) ==
    /\ MsgCanDismiss(how)
    /\ msgIsOpen' = FALSE
    /\ msgLast' = [op |-> "dismiss", how |-> how]
    /\ UNCHANGED <<msgProps, formVars>>

\* --------------------------------------------------------- specifications
Init == InitForm /\ InitMsg

Records == {Undefined} \cup {Val(k) : k \in StoredKeys}

\* The form dialog over the whole range of inputs, the user waiting for the
\* answer to one submission before submitting again.
Next ==
    \/ \E d \in Records : Open(d)
    \/ RunExpirationEffect
    \/ RunLoadBalancerEffect
    \/ RunPrefixEffect
    \/ RunIsOpenEffect
    \/ \E n \in NameInputs : TypeName(n)
    \/ \E p \in PathInputs : TypePath(p)
    \/ \E day \in Days : PickExpirationDate(day)
    \/ ClearExpirationDate
    \/ \E key \in LoadBalancerAlgorithm : SelectLoadBalancer(key)
    \/ \E key \in PrefixKeys : SelectPrefix(key)
    \/ PressCancel
    \/ ModalRequestsClose
    \/ SubmitInvalid
    \/ Submit(FALSE)
    \/ \E i \in 1..MaxInFlight, given \in BOOLEAN : PersistenceReturned(i, given)
    \/ \E i \in 1..MaxInFlight, e \in Errors : PersistenceThrew(i, e)

Spec == Init /\ [][Next]_vars

\* The form dialog with up to MaxInFlight calls awaiting their answers, one
\* input per field.
NextAsync ==
    \/ \E d \in Records : Open(d)
    \/ RunExpirationEffect
    \/ RunLoadBalancerEffect
    \/ RunPrefixEffect
    \/ RunIsOpenEffect
    \/ \E n \in {<<>>, <<"k">>} : TypeName(n)
    \/ TypePath(<<"/">>)
    \/ PickExpirationDate(1)
    \/ ClearExpirationDate
    \/ SelectLoadBalancer(UserIpAddress)
    \/ SelectPrefix("Type1")
    \/ PressCancel
    \/ ModalRequestsClose
    \/ SubmitInvalid
    \/ Submit(TRUE)
    \/ \E i \in 1..MaxInFlight, given \in BOOLEAN : PersistenceReturned(i, given)
    \/ \E i \in 1..MaxInFlight, e \in Errors : PersistenceThrew(i, e)

SpecAsync == Init /\ [][NextAsync]_vars

\* The message dialog.
NextMsg ==
    \/ \E t \in Titles, b \in Bodies, dis \in BOOLEAN : MsgShow(t, b, dis)
    \/ MsgPressOk
    \/ \E how \in {"closeButton", "outsidePress", "escapeKey"} : MsgDismiss(how)

SpecMsg == Init /\ [][NextMsg]_vars

\* ------------------------------------------------------------- properties
Submitted == lastStep.op = "submit"
Completed == lastStep.op \in {"returned", "threw"}

\* a path slugify leaves as it is: only characters it keeps, "-" only between
\* two of them
IsSlug(s) ==
    /\ s # <<>>
    /\ \A i \in DOMAIN s : s[i] \in (WordChars \cup Punctuation)
    /\ s[1] # "-" /\ s[Len(s)] # "-"
    /\ \A i \in 1..(Len(s) - 1) : ~(s[i] = "-" /\ s[i + 1] = "-")

\* C1: every accepted submission hands the persistence action a generated
\* uuid when the path field is empty and slugify(path) otherwise, in create
\* and in edit mode; the path goes out as typed only when it is a slug.
C1_PathIsUuidOrSlug ==
    Submitted =>
        LET typed == lastStep.data.path
            sent == lastStep.payload.path
        IN  /\ sent.tag = "val"
            /\ ~TruthySeq(typed) => sent.v \in Uuids
            /\ TruthySeq(typed) => sent.v = Slugify(typed.v)
            /\ sent = typed => IsSlug(typed.v)

C1_Witness ==
    /\ Submitted
    /\ lastStep.action = "updateDynamicAccessKey"
    /\ lastStep.data.path = Val(<<"a", " ">>)
    /\ lastStep.payload.path = Val(<<"a">>)

\* C10: every payload handed to a persistence action has a non-empty path.
C10_PathNeverEmpty ==
    Submitted => TruthySeq(lastStep.payload.path)

IsPersistenceAction(e) ==
    e \in {"createDynamicAccessKey", "updateDynamicAccessKey"}

\* C4: an accepted submission calls exactly one persistence action:
\* updateDynamicAccessKey exactly when the dialog was given a record, with
\* that record's id, else createDynamicAccessKey with no id; the form record
\* has no id field.
C4_ActionAndId ==
    Submitted =>
        /\ Len(SelectSeq(lastStep.events, IsPersistenceAction)) = 1
        /\ lastStep.action \in Range(lastStep.events)
        /\ "id" \notin DOMAIN lastStep.data
        /\ IF dynamicAccessKeyData.tag = "val"
           THEN /\ lastStep.action = "updateDynamicAccessKey"
                /\ lastStep.payload.id = Val(dynamicAccessKeyData.v.id)
           ELSE /\ lastStep.action = "createDynamicAccessKey"
                /\ lastStep.payload.id = Undefined

C4_Witness ==
    /\ Submitted
    /\ lastStep.action = "updateDynamicAccessKey"
    /\ lastStep.payload.id = Val(2)
    /\ lastStep.data.path = Val(<<"a">>)

\* C5: the loadBalancerAlgorithm of every payload is one of the three
\* algorithms, and RandomKeyOnEachConnection when none is selected.
C5_AlgorithmInPayload ==
    Submitted =>
        /\ lastStep.payload.loadBalancerAlgorithm.tag = "val"
        /\ lastStep.payload.loadBalancerAlgorithm.v \in LoadBalancerAlgorithm
        /\ ~Truthy(selectedLoadBalancer) =>
             lastStep.payload.loadBalancerAlgorithm.v = RandomKeyOnEachConnection

C5_Witness ==
    /\ Submitted
    /\ dynamicAccessKeyData.tag = "val"
    /\ selectedLoadBalancer = Undefined
    /\ lastStep.payload.loadBalancerAlgorithm = Val(RandomKeyOnEachConnection)

\* C6: once the effects of an opening have run, serverError is "" and the
\* form record and the selected* cells hold the given record's values, or the
\* blank defaults when none is given, whatever an earlier session left.
C6_OpenReinitialises ==
    (lastStep.op = "opened" /\ Settled) =>
        /\ serverError = Val("")
        /\ IF dynamicAccessKeyData.tag = "val"
           THEN LET key == dynamicAccessKeyData.v
                IN  /\ form.name = Val(key.name)
                    /\ form.path = Val(key.path)
                    /\ form.loadBalancerAlgorithm = Val(key.loadBalancerAlgorithm)
                    /\ form.expiresAt = key.expiresAt
                    /\ form.prefix = key.prefix
                    /\ selectedLoadBalancer = Val(key.loadBalancerAlgorithm)
                    /\ selectedPrefix = key.prefix
                    /\ selectedExpirationDate = OpenExpirationDate(dynamicAccessKeyData)
           ELSE /\ form.name = Val(<<>>)
                /\ form.path = Val(<<>>)
                /\ form.loadBalancerAlgorithm = Val(RandomKeyOnEachConnection)
                /\ form.expiresAt = Null
                /\ form.prefix = Null
                /\ ~Truthy(selectedLoadBalancer)
                /\ selectedPrefix = Null
                /\ selectedExpirationDate.tag # "val"

\* C7: once the pending effects have run, the form record's expiresAt is the
\* first instant of the selected day (null when none is selected), its prefix
\* is selectedPrefix and its loadBalancerAlgorithm is the selected algorithm
\* or the default.
C7_FormSynchronised ==
    Settled =>
        /\ form.expiresAt = (IF selectedExpirationDate.tag = "val"
                             THEN Val(ParseDay(selectedExpirationDate.v))
                             ELSE Null)
        /\ form.prefix = selectedPrefix
        /\ form.loadBalancerAlgorithm =
             (IF Truthy(selectedLoadBalancer) THEN selectedLoadBalancer
              ELSE Val(RandomKeyOnEachConnection))

\* C2: onSuccess is called only by the continuation of a persistence call
\* that returned, once, and after disclosure.onClose; never when it threw.
C2_SuccessAfterPersistence ==
    /\ Submitted => "onSuccess" \notin Range(lastStep.events)
    /\ lastStep.op = "threw" => "onSuccess" \notin Range(lastStep.events)
    /\ lastStep.op = "returned" =>
         /\ ~isOpen
         /\ lastStep.events \in {<<"onClose">>, <<"onClose", "onSuccess">>}

C2_Witness ==
    /\ lastStep.op = "returned"
    /\ lastStep.wasOpen
    /\ lastStep.events = <<"onClose", "onSuccess">>

\* C3: when the persistence action throws, the dialog is not closed,
\* onSuccess is not called and serverError is the error's string; every
\* submission starts by clearing serverError; the error on screen belongs to
\* the most recent submission.
C3_ErrorOfLatestSubmission ==
    /\ Submitted => serverError = Val("")
    /\ lastStep.op = "threw" =>
         /\ lastStep.events = <<"setServerError">>
         /\ isOpen = lastStep.wasOpen
         /\ serverError = Val(ErrorToString(lastStep.error))
         /\ isOpen => lastStep.latest

\* C9: the completion of a call issued in an earlier session neither closes
\* the dialog opened since nor writes its serverError.
C9_CompletionStaysInItsSession ==
    (Completed /\ lastStep.session = "earlier" /\ lastStep.wasOpen) =>
        /\ isOpen
        /\ "setServerError" \notin Range(lastStep.events)

\* C8: with isDismissable false the message dialog closes only by Ok; it is
\* shown exactly while its disclosure is open, and Ok closes it.
C8_MessageModalClosing ==
    /\ MsgModal.isOpen = msgIsOpen
    /\ msgLast.op = "ok" => ~msgIsOpen
    /\ msgLast.op = "dismiss" => (~msgIsOpen /\ msgProps.isDismissable)
    /\ (~msgIsOpen /\ ~msgProps.isDismissable) => msgLast.op \in {"idle", "ok"}

C8_Witness ==
    /\ ~msgIsOpen
    /\ ~msgProps.isDismissable
    /\ msgLast.op = "ok"

====
